---- MODULE Spec2Model ----
(***************************************************************************)
(* VN-Speech-Guardian, apps/ai-worker: the streaming ASR endpoint          *)
(* (routers/asr.py), the batch moderation endpoint (routers/moderation.py) *)
(* and the moderation decision engine (services/bert_service.py).          *)
(*                                                                         *)
(* Conventions                                                             *)
(*  - a text is a sequence of characters; a character is a one-element     *)
(*    token written in ASCII (VIQR-like: "dd" = d with stroke, "o^`" = o   *)
(*    circumflex grave, "u+?" = u horn hook, "a." = a dot-below, ...);     *)
(*  - a probability or a score is an integer number of hundredths          *)
(*    (0.95 = 95);                                                         *)
(*  - a Python dict is a function whose DOMAIN is its key set; None of a   *)
(*    string-valued header is the string "None".                           *)
(*                                                                         *)
(* core/config.py as found under src/ declares none of ASR_MIN_INTERVAL_MS,*)
(* ASR_RUN_MOD, PHOBERT_BLOCK_THRESHOLD, PHOBERT_WARN_THRESHOLD, although  *)
(* asr.py, bert_service.py and the tests read them.  Their values are      *)
(* taken as configuration inputs (spec section 6) and drawn in Init.       *)
(***************************************************************************)
EXTENDS Integers, Sequences, FiniteSets, TLC

\* ------------------------------------------------------------------ bounds
MaxClock == 3        \* wall-clock readings are 1..MaxClock
MaxBodyLen == 2      \* request bodies have 0..MaxBodyLen bytes
MaxBatch == 2        \* moderation batches have 1..MaxBatch inputs

None == "None"

\* ------------------------------------------------------ generic dict helpers
Get(f, k, d) == IF k \in DOMAIN f THEN f[k] ELSE d
Put(f, k, v) == [x \in (DOMAIN f) \cup {k} |-> IF x = k THEN v ELSE f[x]]
EmptyDict == << >>
\* mutant: the sum instead of the larger
Max_adding(a, b) == a + b

Max(a, b) == IF a >= b THEN a ELSE b

\* --------------------------------------------------------------- str helpers
\* str.lower() on the characters that occur in the modelled texts
LowerChar(c) ==
    CASE c = "D" -> "d"
      [] c = "M" -> "m"
      [] c = "C" -> "c"
      [] c = "W" -> "w"
      [] c = "T" -> "t"
      [] c = "F" -> "f"
      [] c = "X" -> "x"
      [] c = "DD" -> "dd"
      [] c = "U'" -> "u'"
      [] OTHER -> c

Lower(s) == [i \in 1..Len(s) |-> LowerChar(s[i])]

\* Python `k in s` for strings: substring containment
Contains(k, s) ==
    \E i \in 1..(Len(s) + 1 - Len(k)) : SubSeq(s, i, i + Len(k) - 1) = k

IsSpace(c) == c = " "

RECURSIVE LStrip(_)
LStrip(s) == IF s # << >> /\ IsSpace(Head(s)) THEN LStrip(Tail(s)) ELSE s

RECURSIVE RStrip(_)
RStrip(s) ==
    IF s # << >> /\ IsSpace(s[Len(s)]) THEN RStrip(SubSeq(s, 1, Len(s) - 1)) ELSE s

\* str.strip()
Strip(s) == RStrip(LStrip(s))

\* s[:n]
Prefix(s, n) == SubSeq(s, 1, IF Len(s) < n THEN Len(s) ELSE n)

\* str(i) for the small indices that occur
IntStr(i) ==
    CASE i = 0 -> "0"
      [] i = 1 -> "1"
      [] i = 2 -> "2"
      [] i = 3 -> "3"
      [] OTHER -> "n"

\* ------------------------------------------------------------ keyword lists
\* _heuristic: block keywords (bert_service.py:13-17)
HEUR_BLOCK_KEYS == {
    <<"dd", "o^`", " ", "n", "g", "u">>,
    <<"dd", "o^`", " ", "k", "h", "o^'", "n">>,
    <<"dd", "o^`", " ", "m", "a^'", "t", " ", "d", "a.", "y">>,
    <<"m", "a^'", "t", " ", "d", "a.", "y">>,
    <<"k", "h", "o^'", "n", " ", "n", "a.", "n">>,
    <<"c", "h", "u+?", "i">>,
    <<"c", "h", "u+?", "i", " ", "b", "a^.", "y">>,
    <<"c", "u'", "t">>,
    <<"dd", "m">>,
    <<"d", "m">>,
    <<"d", "m", "m">>,
    <<"c", "c">>,
    <<"f", "u", "c", "k">>,
    <<"w", "t", "f">> }

\* _heuristic: warn keywords (bert_service.py:19)
HEUR_WARN_KEYS == {
    <<"c", "a?", "n", "h", " ", "b", "a'", "o">>,
    <<"w", "a", "r", "n", "i", "n", "g">> }

\* predict: hard_block (bert_service.py:100-103)
hard_block == {
    <<"dd", "o^`", " ", "n", "g", "u">>,
    <<"dd", "o^`", " ", "k", "h", "o^'", "n">>,
    <<"dd", "o^`", " ", "m", "a^'", "t", " ", "d", "a.", "y">>,
    <<"m", "a^'", "t", " ", "d", "a.", "y">>,
    <<"k", "h", "o^'", "n", " ", "n", "a.", "n">>,
    <<"dd", "m">>,
    <<"d", "m">>,
    <<"d", "m", "m">>,
    <<"c", "c">>,
    <<"f", "u", "c", "k">>,
    <<"f", "*", "*", "k">>,
    <<"f", "*", "*", "*">>,
    <<"w", "t", "f">> }

\* predict: warn_keys (bert_service.py:104)
warn_keys == {
    <<"c", "a?", "n", "h", " ", "b", "a'", "o">>,
    <<"w", "a", "r", "n", "i", "n", "g">> }

\* ------------------------------------------------------------- _heuristic
\* mutant: the warn list is scanned before the block list
heuristic_item_warn_first(s) ==
    LET sl == Lower(s) IN
    IF \E k \in HEUR_WARN_KEYS : Contains(k, sl)
    THEN [label |-> "warn", score |-> 80]
    ELSE IF \E k \in HEUR_BLOCK_KEYS : Contains(k, sl)
         THEN [label |-> "block", score |-> 95]
         ELSE [label |-> "safe", score |-> 98]

\* the decision of one text (body of the for loop, bert_service.py:12-22)
heuristic_item(s) ==
    LET sl == Lower(s) IN
    IF \E k \in HEUR_BLOCK_KEYS : Contains(k, sl)
    THEN [label |-> "block", score |-> 95]
    ELSE IF \E k \in HEUR_WARN_KEYS : Contains(k, sl)
         THEN [label |-> "warn", score |-> 80]
         ELSE [label |-> "safe", score |-> 98]

RECURSIVE heuristic_loop(_, _)
heuristic_loop(batch, res) ==
    IF batch = << >> THEN res
    ELSE heuristic_loop(Tail(batch), Append(res, heuristic_item(Head(batch))))

\* _heuristic(batch)
heuristic(batch) == heuristic_loop(batch, << >>)

\* ------------------------------------------------- label space resolution
\* A raw id2label table (model.config.id2label, or "id2label" of config.json)
\* is a sequence of entries in dict order.  A key is an int or a string:
\* num says whether int(k) succeeds and n is its value.  A value is a label
\* string, an int code, or something int() rejects (null).
KInt(n) == [num |-> TRUE, n |-> n]
KBad == [num |-> FALSE, n |-> 0]
VStr(s) == [kind |-> "str", s |-> s, n |-> 0]
VInt(n) == [kind |-> "int", s |-> "", n |-> n]
VNull == [kind |-> "null", s |-> "", n |-> 0]
Entry(k, v) == [k |-> k, v |-> v]

\* {v: k for k, v in cfg.LABEL_MAP.items()}; LABEL_MAP is a sequence of
\* <<name, index>> pairs in dict order
RECURSIVE inv_env_loop(_, _)
inv_env_loop(items, acc) ==
    IF items = << >> THEN acc
    ELSE inv_env_loop(Tail(items), Put(acc, Head(items)[2], Head(items)[1]))

inv_env(label_map) == inv_env_loop(label_map, EmptyDict)

\* the normalisation loop; ok = FALSE when int(k) or int(v) raises, and then
\* the assignment `id2label_map = tmp` is never reached
RECURSIVE normalize_loop(_, _, _)
normalize_loop(raw, inv, tmp) ==
    IF raw = << >> THEN [ok |-> TRUE, map |-> tmp]
    ELSE LET e == Head(raw) IN
         IF ~e.k.num THEN [ok |-> FALSE, map |-> tmp]
         ELSE IF e.v.kind = "str"
              THEN normalize_loop(Tail(raw), inv, Put(tmp, e.k.n, e.v.s))
              ELSE IF e.v.kind = "int"
                   THEN normalize_loop(Tail(raw), inv,
                            Put(tmp, e.k.n, Get(inv, e.v.n, IntStr(e.v.n))))
                   ELSE [ok |-> FALSE, map |-> tmp]

\* an optional mapping: Python None is [some |-> FALSE]
NoMap == [some |-> FALSE, map |-> EmptyDict]
SomeMap(m) == [some |-> TRUE, map |-> m]

\* mutant: a table whose normalisation raised part-way still yields the
\* entries normalised before the failure
normalize_source_keeps_partial(src, label_map) ==
    IF src.state = "dict" /\ src.entries # << >>
    THEN LET r == normalize_loop(src.entries, inv_env(label_map), EmptyDict)
         IN SomeMap(r.map)
    ELSE NoMap

\* a source's raw table: state "none" (attribute or key absent, or not a
\* dict), "raises" (reading it raises), "dict" (a dict, possibly empty)
normalize_source(src, label_map) ==
    IF src.state = "dict" /\ src.entries # << >>
    THEN LET r == normalize_loop(src.entries, inv_env(label_map), EmptyDict)
         IN IF r.ok THEN SomeMap(r.map) ELSE NoMap
    ELSE NoMap

\* step 1: model.config.id2label
from_model(phobert, label_map) ==
    IF phobert.has_model THEN normalize_source(phobert.id2label, label_map)
    ELSE NoMap

\* step 2: config.json next to the tokenizer (only when step 1 gave None)
from_manifest(phobert, manifest, label_map) ==
    IF phobert.name_or_path /\ manifest.state # "absent"
    THEN normalize_source(manifest, label_map)
    ELSE NoMap

\* mutant: the manifest is consulted before the classifier's own table
resolve_id2label_manifest_first(phobert, manifest, label_map) ==
    LET m2 == from_manifest(phobert, manifest, label_map) IN
    IF m2.some THEN m2.map
    ELSE LET m1 == from_model(phobert, label_map) IN
         IF m1.some THEN m1.map
         ELSE inv_env(label_map)

\* the id2label_map that predict ends up using
resolve_id2label(phobert, manifest, label_map) ==
    LET m1 == from_model(phobert, label_map) IN
    IF m1.some THEN m1.map
    ELSE LET m2 == from_manifest(phobert, manifest, label_map) IN
         IF m2.some THEN m2.map
         ELSE inv_env(label_map)

\* ---------------------------------------------------------------- predict
\* max(range(len(p)), key=lambda ii: p[ii]): the first index of the maximum,
\* 0-based
ArgMax(p) ==
    (CHOOSE i \in 1..Len(p) :
        /\ \A j \in 1..Len(p) : p[j] <= p[i]
        /\ \A j \in 1..(i - 1) : p[j] < p[i]) - 1

RECURSIVE label_probs_loop(_, _, _, _)
label_probs_loop(p, idx, id2label_map, label_probs) ==
    IF idx >= Len(p) THEN label_probs
    ELSE label_probs_loop(p, idx + 1, id2label_map,
             Put(label_probs, Get(id2label_map, idx, IntStr(idx)), p[idx + 1]))

\* mutant: the warn threshold is tried before the block threshold
threshold_decision_warn_first(label_probs, model_label, model_score, block_th, warn_th) ==
    LET blk_prob == Get(label_probs, "block", 0)
        wrn_prob == Get(label_probs, "warn", 0)
    IN IF wrn_prob >= warn_th THEN [label |-> "warn", score |-> wrn_prob]
       ELSE IF blk_prob >= block_th THEN [label |-> "block", score |-> blk_prob]
            ELSE [label |-> model_label, score |-> model_score]

\* the threshold cascade for a text without keyword match
threshold_decision(label_probs, model_label, model_score, block_th, warn_th) ==
    LET blk_prob == Get(label_probs, "block", 0)
        wrn_prob == Get(label_probs, "warn", 0)
    IN IF blk_prob >= block_th THEN [label |-> "block", score |-> blk_prob]
       ELSE IF wrn_prob >= warn_th THEN [label |-> "warn", score |-> wrn_prob]
            ELSE [label |-> model_label, score |-> model_score]

\* mutant: a block keyword overrides the model only when the model's argmax is
\* not safe
predict_item_trusts_safe(s, p, id2label_map, block_th, warn_th) ==
    LET label_probs == label_probs_loop(p, 0, id2label_map, EmptyDict)
        idx == ArgMax(p)
        model_label == Get(id2label_map, idx, IntStr(idx))
        model_score == p[idx + 1]
        text == Lower(s)
    IN IF (\E k \in hard_block : Contains(k, text)) /\ model_label # "safe"
       THEN [label |-> "block", score |-> Max(model_score, 90)]
       ELSE IF \E k \in warn_keys : Contains(k, text)
            THEN [label |-> "warn", score |-> Max(Get(label_probs, "warn", 0), 60)]
            ELSE threshold_decision(label_probs, model_label, model_score,
                                    block_th, warn_th)

\* mutant: the block threshold is tried before the warn keywords
predict_item_threshold_before_warn(s, p, id2label_map, block_th, warn_th) ==
    LET label_probs == label_probs_loop(p, 0, id2label_map, EmptyDict)
        idx == ArgMax(p)
        model_label == Get(id2label_map, idx, IntStr(idx))
        model_score == p[idx + 1]
        text == Lower(s)
    IN IF \E k \in hard_block : Contains(k, text)
       THEN [label |-> "block", score |-> Max(model_score, 90)]
       ELSE IF Get(label_probs, "block", 0) >= block_th
            THEN [label |-> "block", score |-> Get(label_probs, "block", 0)]
            ELSE IF \E k \in warn_keys : Contains(k, text)
                 THEN [label |-> "warn", score |-> Max(Get(label_probs, "warn", 0), 60)]
                 ELSE threshold_decision(label_probs, model_label, model_score,
                                         block_th, warn_th)

\* body of `for i, p in enumerate(probs)` for one item
predict_item(s, p, id2label_map, block_th, warn_th) ==
    LET label_probs == label_probs_loop(p, 0, id2label_map, EmptyDict)
        idx == ArgMax(p)
        model_label == Get(id2label_map, idx, IntStr(idx))
        model_score == p[idx + 1]
        text == Lower(s)
    IN IF \E k \in hard_block : Contains(k, text)
       THEN [label |-> "block", score |-> Max(model_score, 90)]
       ELSE IF \E k \in warn_keys : Contains(k, text)
            THEN [label |-> "warn", score |-> Max(Get(label_probs, "warn", 0), 60)]
            ELSE threshold_decision(label_probs, model_label, model_score,
                                    block_th, warn_th)

\* a threshold setting float() raises on; readable thresholds are >= 0
NotAFloat == -1

\* float(cfg.PHOBERT_BLOCK_THRESHOLD), float(cfg.PHOBERT_WARN_THRESHOLD) raise
threshold_read_raises(block_th, warn_th) ==
    block_th = NotAFloat \/ warn_th = NotAFloat

\* the loop body raises on this item: it has no keyword match, so the
\* thresholds are read, and the read raises
item_raises(s, block_th, warn_th) ==
    /\ ~\E k \in hard_block \cup warn_keys : Contains(k, Lower(s))
    /\ threshold_read_raises(block_th, warn_th)

\* the loop reaches `return out`: it raises on no item
loop_completes(batch, block_th, warn_th) ==
    \A i \in 1..Len(batch) : ~item_raises(batch[i], block_th, warn_th)

\* mutant: each decision is put in front of the earlier ones
RECURSIVE predict_loop_prepending(_, _, _, _, _, _, _)
predict_loop_prepending(batch, probs, i, id2label_map, block_th, warn_th, out) ==
    IF i > Len(probs) THEN [raised |-> FALSE, out |-> out]
    ELSE IF item_raises(batch[i], block_th, warn_th)
    THEN [raised |-> TRUE, out |-> out]
    ELSE predict_loop_prepending(batch, probs, i + 1, id2label_map, block_th, warn_th,
             <<predict_item(batch[i], probs[i], id2label_map,
                            block_th, warn_th)>> \o out)

\* the loop `for i, p in enumerate(probs)` from item i on: the decisions
\* appended so far, and whether an item raised
RECURSIVE predict_loop(_, _, _, _, _, _, _)
predict_loop(batch, probs, i, id2label_map, block_th, warn_th, out) ==
    IF i > Len(probs) THEN [raised |-> FALSE, out |-> out]
    ELSE IF item_raises(batch[i], block_th, warn_th)
    THEN [raised |-> TRUE, out |-> out]
    ELSE predict_loop(batch, probs, i + 1, id2label_map, block_th, warn_th,
             Append(out, predict_item(batch[i], probs[i], id2label_map,
                                      block_th, warn_th)))

\* the try block gets to the loop: the snapshot is a non-empty dict with a
\* tokenizer, a backend exists, and neither tokenisation nor inference raises
model_path_ok(phobert, infer) ==
    /\ phobert.truthy
    /\ phobert.tokenizer
    /\ (phobert.has_onnx \/ phobert.has_model)
    /\ ~infer.raises

\* mutant: when an item raises, the decisions computed so far are returned,
\* completed by the heuristic decisions of the remaining items
predict_keeps_partial(batch, phobert, conf, infer) ==
    IF ~phobert.truthy THEN heuristic(batch)
    ELSE IF ~phobert.tokenizer THEN heuristic(batch)
    ELSE IF ~model_path_ok(phobert, infer) THEN heuristic(batch)
    ELSE LET r == predict_loop(batch, infer.probs, 1,
                      resolve_id2label(phobert, conf.manifest, conf.LABEL_MAP),
                      conf.PHOBERT_BLOCK_THRESHOLD, conf.PHOBERT_WARN_THRESHOLD, << >>)
         IN IF r.raised
            THEN r.out \o heuristic(SubSeq(batch, Len(r.out) + 1, Len(batch)))
            ELSE r.out

\* predict(batch, phobert); conf carries what the call reads besides its
\* arguments: manifest, LABEL_MAP and the two thresholds; infer is what the
\* classifier does on this call
predict(batch, phobert, conf, infer) ==
    IF ~phobert.truthy THEN heuristic(batch)
    ELSE IF ~phobert.tokenizer THEN heuristic(batch)
    ELSE IF ~model_path_ok(phobert, infer) THEN heuristic(batch)
    ELSE LET r == predict_loop(batch, infer.probs, 1,
                      resolve_id2label(phobert, conf.manifest, conf.LABEL_MAP),
                      conf.PHOBERT_BLOCK_THRESHOLD, conf.PHOBERT_WARN_THRESHOLD, << >>)
         IN IF r.raised THEN heuristic(batch) ELSE r.out

\* ------------------------------------------------------------ input domains
\* texts submitted for moderation: every short text over a small alphabet,
\* and longer samples (the tests' texts among them)
MaxTextLen == 2
Alphabet == {"d", "m", "c", " "}
RECURSIVE SeqsUpTo(_, _)
SeqsUpTo(S, n) ==
    IF n = 0 THEN {<< >>}
    ELSE LET shorter == SeqsUpTo(S, n - 1)
         IN shorter \cup {Append(t, c) : t \in {u \in shorter : Len(u) = n - 1}, c \in S}

XinChao == <<"x", "i", "n", " ", "c", "h", "a", "o">>
SampleTexts == {
    XinChao,
    <<"X", "i", "n", " ", "c", "h", "a", "o">>,
    <<"dd", "o^`", " ", "n", "g", "u", " ", "q", "u", "a'">>,
    <<"C", "a?", "n", "h", " ", "b", "a'", "o", " ", "l", "a^`", "n", " ", "c", "u", "o^'", "i">>,
    <<"w", "a", "r", "n", "i", "n", "g">>,
    <<"W", "T", "F">>,
    <<"C", "u'", "t">>,
    <<"c", "h", "u+?", "i">>,
    <<"DD", "M">>,
    <<"f", "*", "*", "k">>,
    <<"d", "m", " ", "w", "a", "r", "n", "i", "n", "g">>,
    <<"c", "u'", "t", " ", "w", "a", "r", "n", "i", "n", "g">> }
Texts == SeqsUpTo(Alphabet, MaxTextLen) \cup SampleTexts

\* probability rows of a three-class classifier, in hundredths
ProbGrid == {0, 5, 10, 45, 85, 90, 95, 100}
Dists == {d \in ProbGrid \X ProbGrid \X ProbGrid : d[1] + d[2] + d[3] = 100}

\* the texts and rows of batches with more than one input
BatchTexts == {XinChao, <<"d", "m">>, <<"w", "a", "r", "n", "i", "n", "g">>}
BatchDists == {<<90, 5, 5>>, <<5, 5, 90>>}

RECURSIVE SeqsOfLen(_, _)
SeqsOfLen(S, n) ==
    IF n = 0 THEN {<< >>} ELSE {Append(t, c) : t \in SeqsOfLen(S, n - 1), c \in S}

\* a moderation request body with what the classifier would answer on it
ModInputs ==
    {[inputs |-> <<t>>, probs |-> <<d>>] : t \in Texts, d \in Dists}
    \cup UNION {
        {[inputs |-> ts, probs |-> ds] :
            ts \in SeqsOfLen(BatchTexts, n), ds \in SeqsOfLen(BatchDists, n)}
        : n \in 2..MaxBatch }

\* ---------------------------------------------------- configuration domains
API_KEY == "dev-secret"                       \* cfg.API_KEY default
ApiKeys == {None, API_KEY, "wrong"}           \* x-api-key header values

MinIntervalMs == 2
\* ASR_MIN_INTERVAL_MS: 0 or less disables the rate limit
MinIntervalChoices == {-1, 0, MinIntervalMs}

\* cfg.LABEL_MAP (MOD_LABELS_JSON), as <<name, index>> pairs in dict order
DefaultLabelMap == <<<<"safe", 0>>, <<"warn", 1>>, <<"block", 2>>>>
LabelMaps == {DefaultLabelMap, <<<<"safe", 0>>, <<"block", 1>>, <<"warn", 2>>>>}

\* <<PHOBERT_BLOCK_THRESHOLD, PHOBERT_WARN_THRESHOLD>> in hundredths
ThresholdChoices == {<<90, 80>>, <<45, 45>>, <<50, 90>>}

\* classifier configurations of the moderation endpoint: LABEL_MAP with the
\* two thresholds
ModConfigs ==
    {[LABEL_MAP |-> DefaultLabelMap, th |-> th] : th \in ThresholdChoices \ {<<50, 90>>}}
    \cup {[LABEL_MAP |-> DefaultLabelMap, th |-> <<NotAFloat, 80>>]}
    \cup {[LABEL_MAP |-> lm, th |-> <<50, 90>>] : lm \in LabelMaps \ {DefaultLabelMap}}

\* raw id2label tables
NoTable == [state |-> "none", entries |-> << >>]
RaisingTable == [state |-> "raises", entries |-> << >>]
Table(es) == [state |-> "dict", entries |-> es]
NamedTable == Table(<<Entry(KInt(0), VStr("safe")), Entry(KInt(1), VStr("warn")),
                      Entry(KInt(2), VStr("block"))>>)
GenericTable == Table(<<Entry(KInt(0), VStr("LABEL_0")), Entry(KInt(1), VStr("LABEL_1")),
                        Entry(KInt(2), VStr("LABEL_2"))>>)
CodedTable == Table(<<Entry(KInt(0), VInt(2)), Entry(KInt(1), VInt(1)),
                      Entry(KInt(2), VInt(0))>>)
BadKeyTable == Table(<<Entry(KInt(0), VStr("block")), Entry(KBad, VStr("warn"))>>)
SwappedTable == Table(<<Entry(KInt(0), VStr("block")), Entry(KInt(1), VStr("warn")),
                        Entry(KInt(2), VStr("safe"))>>)

\* app.state.models["phobert"] as lifespan leaves it: None, or a dict with a
\* tokenizer and either "model" or "onnx_session"
NoPhobert ==
    [truthy |-> FALSE, tokenizer |-> FALSE, has_model |-> FALSE, has_onnx |-> FALSE,
     name_or_path |-> FALSE, id2label |-> NoTable]
HfPhobert(table) ==
    [truthy |-> TRUE, tokenizer |-> TRUE, has_model |-> TRUE, has_onnx |-> FALSE,
     name_or_path |-> TRUE, id2label |-> table]
OnnxPhobert ==
    [truthy |-> TRUE, tokenizer |-> TRUE, has_model |-> FALSE, has_onnx |-> TRUE,
     name_or_path |-> TRUE, id2label |-> NoTable]
NoTokenizerPhobert ==
    [truthy |-> TRUE, tokenizer |-> FALSE, has_model |-> TRUE, has_onnx |-> FALSE,
     name_or_path |-> FALSE, id2label |-> NamedTable]

\* what the classifier does on one call
Infer(raises, probs) == [raises |-> raises, probs |-> probs]

\* ----------------------------------------------------------------- state
VARIABLES
    cfg,        \* configuration read by the handlers
    models,     \* app.state.models: whisper (loaded or not), phobert
    manifest,   \* config.json colocated with the classifier
    clock,      \* time.time() * 1000
    asr_rl,     \* app.state._asr_rl: session id -> last admitted now_ms
    req,        \* asr_stream calls: idle, or suspended at `await request.body()`
                \* with the session id of the request
    resp,       \* outcome of the last asr_stream step: the response sent with
                \* its request, or the locals of the call it left suspended
    mod         \* the exchange of the moderation endpoint the client holds

vars == <<cfg, models, manifest, clock, asr_rl, req, resp, mod>>

\* what predict reads besides its arguments
Conf ==
    [manifest |-> manifest, LABEL_MAP |-> cfg.LABEL_MAP,
     PHOBERT_BLOCK_THRESHOLD |-> cfg.PHOBERT_BLOCK_THRESHOLD,
     PHOBERT_WARN_THRESHOLD |-> cfg.PHOBERT_WARN_THRESHOLD]

\* ------------------------------------------------- POST /moderation
NoExchange ==
    [x_api_key |-> None, inputs |-> << >>, infer |-> Infer(FALSE, << >>),
     status |-> 0, results |-> << >>]

\* mutant: a request without x-api-key header passes
verify_api_key_absent_passes(x_api_key) == x_api_key = None \/ x_api_key = API_KEY

\* verify_api_key: TRUE when it returns, FALSE when it raises 401
verify_api_key(x_api_key) == x_api_key = API_KEY

\* whether predict gets as far as calling the tokenizer and the classifier
classifier_called(phobert) == phobert.truthy /\ phobert.tokenizer

\* what the classifier can do on a call with these inputs
InferChoices(phobert, probs) ==
    IF classifier_called(phobert)
    THEN {Infer(TRUE, << >>), Infer(FALSE, probs)}
    ELSE {Infer(FALSE, << >>)}

ModExchange(key, inputs, infer, status, results) ==
    [x_api_key |-> key, inputs |-> inputs, infer |-> infer, status |-> status,
     results |-> results]

\* one call of moderation(body, request), sent by a client that holds no
\* earlier exchange, with a request body drawn from Inputs or with an empty
\* list; the dependency verify_api_key runs first, then the validation of the
\* body, then the handler
moderation_call(Inputs) ==
    /\ mod = NoExchange
    /\ ~\E r \in DOMAIN req : req[r].pc = "call"
    /\ \E key \in ApiKeys :
         IF ~verify_api_key(key)
         THEN \E inputs \in {in.inputs : in \in Inputs} \cup {<< >>} :
                 mod' = ModExchange(key, inputs, Infer(FALSE, << >>), 401, << >>)
         ELSE \/ mod' = ModExchange(key, << >>, Infer(FALSE, << >>), 422, << >>)
              \/ \E in \in Inputs :
                   \E infer \in InferChoices(models.phobert, in.probs) :
                       mod' = ModExchange(key, in.inputs, infer, 200,
                                          predict(in.inputs, models.phobert, Conf, infer))
    /\ UNCHANGED <<cfg, models, manifest, clock, asr_rl, req, resp>>

moderation == moderation_call(ModInputs)

\* the client is done with the response
moderation_done ==
    /\ mod # NoExchange
    /\ mod' = NoExchange
    /\ UNCHANGED <<cfg, models, manifest, clock, asr_rl, req, resp>>

\* ------------------------------------------------- transcription
\* _stub_transcribe(data); data is the byte length of the body
stub_transcribe(data) ==
    LET text == IF data > 0 THEN XinChao ELSE << >>
    IN [text |-> text, segments |-> <<text>>]

\* validate_pcm16le(data)
validate_pcm16le(data) == data % 2 = 0

\* " ".join(t.strip() for t in texts)
RECURSIVE JoinStripped(_)
JoinStripped(texts) ==
    IF texts = << >> THEN << >>
    ELSE IF Len(texts) = 1 THEN Strip(Head(texts))
         ELSE Strip(Head(texts)) \o <<" ">> \o JoinStripped(Tail(texts))

\* a segment one character longer than the snippet of a detection may be
LongSegment == [i \in 1..101 |-> "x"]

\* what a loaded whisper model does on one call: raises, or yields segments
NotCalled == [raises |-> FALSE, segments |-> << >>]
WhisperOutcomes(model) ==
    IF model
    THEN {[raises |-> TRUE, segments |-> << >>]} \cup
         {[raises |-> FALSE, segments |-> sg] : sg \in {
             << <<" ">> >>,
             << <<" ", "d", "m">>, <<" ", "x", " ">> >> }}
    ELSE {NotCalled}

\* the same, and a model that yields the long segment
LongOutcomes(model) ==
    IF model
    THEN WhisperOutcomes(model) \cup {[raises |-> FALSE, segments |-> << LongSegment >>]}
    ELSE {NotCalled}

\* mutant: the bytes are handed to the model without the length check
transcribe_bytes_unvalidated(data, model, whisper) ==
    IF ~model THEN stub_transcribe(data)
    ELSE IF whisper.raises THEN stub_transcribe(data)
    ELSE [text |-> Strip(JoinStripped(whisper.segments)), segments |-> whisper.segments]

\* transcribe_bytes(data, model); whisper is what the model does when called
transcribe_bytes(data, model, whisper) ==
    IF ~model THEN stub_transcribe(data)
    ELSE IF ~validate_pcm16le(data) THEN stub_transcribe(data)
    ELSE IF whisper.raises THEN stub_transcribe(data)
    ELSE [text |-> Strip(JoinStripped(whisper.segments)), segments |-> whisper.segments]

\* ------------------------------------------------- POST /asr/stream
Reqs == {"r1", "r2"}
SessionIds == {"s1", "s2"}
SessionHeaders == {None, ""} \cup SessionIds     \* x-session-id
FinalHeaders == {None, "true", "false"}          \* x-final
BodyLens == 0..MaxBodyLen                        \* len(await request.body())
NoTime == 0                                      \* None of dict.get

Idle == [pc |-> "idle", x_session_id |-> None]
AtBody(sid) == [pc |-> "body", x_session_id |-> sid]

\* a call that is inside transcribe_bytes or predict_mod (asr.py:49, 57) with
\* the body and the x-final header it has read
InCall(sid, data, final) ==
    [pc |-> "call", x_session_id |-> sid, data |-> data, x_final |-> final]

\* the event loop is running the synchronous part of a handler: the handlers
\* are coroutines of one loop, and transcribe_bytes and predict_mod are
\* plain calls, so no other coroutine is resumed or started until they
\* return
LoopBusy == \E r \in Reqs : req[r].pc = "call"

\* resp.pc: "none" before the first step, "await" when the step left the call
\* suspended at `await request.body()`, "early" when it sent a response
\* before reading the body, "sent" when it sent one after reading it.  Of
\* the request, a record keeps what the step has read and the length of
\* the body it carries; x_final and the body of a suspended call are read
\* later.
NoResponse ==
    [pc |-> "none", x_api_key |-> None, x_session_id |-> None, x_final |-> None,
     data |-> 0, now_ms |-> NoTime, last |-> NoTime, status |-> 0,
     body |-> [detail |-> ""]]

Suspended(sid, now_ms, last) ==
    [pc |-> "await", x_api_key |-> API_KEY, x_session_id |-> sid, x_final |-> None,
     data |-> 0, now_ms |-> now_ms, last |-> last, status |-> 0,
     body |-> [detail |-> ""]]

Early(key, sid, final, data, now_ms, last, status, body) ==
    [pc |-> "early", x_api_key |-> key, x_session_id |-> sid, x_final |-> final,
     data |-> data, now_ms |-> now_ms, last |-> last, status |-> status,
     body |-> body]

Sent(key, sid, final, data, now_ms, last, status, body) ==
    [pc |-> "sent", x_api_key |-> key, x_session_id |-> sid, x_final |-> final,
     data |-> data, now_ms |-> now_ms, last |-> last, status |-> status,
     body |-> body]

\* a new call is given the first idle slot ("r1" before "r2"): slots only
\* tell concurrent calls apart
FirstIdle == IF req["r1"].pc = "idle" THEN "r1" ELSE "r2"

\* raise HTTPException(status_code, detail)
HTTPException(detail) == [detail |-> detail]

\* mutant: only an absent header counts as missing
missing_session_absent_only(sid) == sid = None

\* `if not x_session_id`
missing_session(sid) == sid = None \/ sid = ""

\* mutant: the entry written by a call of the session that is still in flight
\* is not seen
last_admitted_unsynchronised(sid) ==
    IF \E r \in Reqs : req[r].pc = "body" /\ req[r].x_session_id = sid
    THEN NoTime
    ELSE Get(asr_rl, sid, NoTime)

\* mutant: one recorded time for all sessions, the latest of the table
last_admitted_global(sid) ==
    IF DOMAIN asr_rl = {} THEN NoTime
    ELSE CHOOSE t \in {asr_rl[k] : k \in DOMAIN asr_rl} :
            \A k \in DOMAIN asr_rl : asr_rl[k] <= t

\* `last = request.app.state._asr_rl.get(x_session_id)`
last_admitted(sid) == Get(asr_rl, sid, NoTime)

\* mutant: only a chunk that arrives after the recorded time can be too early
rate_limited_forward_only(last, now_ms, min_interval) ==
    last # NoTime /\ now_ms >= last /\ now_ms - last < min_interval

\* mutant: a chunk exactly min_interval after the last one is rejected too
rate_limited_inclusive(last, now_ms, min_interval) ==
    last # NoTime /\ now_ms - last <= min_interval

\* `if last and now_ms - last < min_interval`
rate_limited(last, now_ms, min_interval) ==
    last # NoTime /\ now_ms - last < min_interval

\* mutant: no empty-body check
empty_body_unchecked(data) == FALSE

\* `if not data`
empty_body(data) == data = 0

\* `if len(data) % 2 != 0`
malformed_pcm(data) == data % 2 # 0

\* asr_stream up to `await request.body()`: the api-key dependency, the
\* session check and the per-session rate limit (asr.py:19-39)
\* mutant: a rejected attempt records its arrival time too
asr_rl_on_reject_records(tbl, sid, now_ms) == Put(tbl, sid, now_ms)

\* _asr_rl after a 429: the raise at asr.py:36 comes before the write at
\* asr.py:37, so the table is what it was
asr_rl_on_reject(tbl, sid, now_ms) == tbl

asr_stream_begin(r) ==
    /\ req[r].pc = "idle"
    /\ r = FirstIdle
    /\ ~LoopBusy
    /\ \/ \E key \in ApiKeys, sid \in SessionHeaders, data \in BodyLens :
            /\ ~verify_api_key(key)
            /\ resp' = Early(key, sid, None, data, NoTime, NoTime, 401,
                            HTTPException("invalid api key"))
            /\ UNCHANGED <<asr_rl, req>>
       \/ \E key \in ApiKeys, sid \in SessionHeaders, data \in BodyLens,
             final \in FinalHeaders :
            /\ verify_api_key(key)
            /\ missing_session(sid)
            /\ resp' = Early(key, sid, final, data, NoTime, NoTime, 400,
                            HTTPException("missing x-session-id"))
            /\ UNCHANGED <<asr_rl, req>>
       \/ \E key \in ApiKeys, sid \in SessionHeaders, data \in BodyLens :
            LET min_interval == cfg.ASR_MIN_INTERVAL_MS
                now_ms == clock
                last == last_admitted(sid)
            IN
            /\ verify_api_key(key)
            /\ ~missing_session(sid)
            /\ IF min_interval > 0
               THEN IF rate_limited(last, now_ms, min_interval)
                    THEN /\ resp' = Early(key, sid, None, data, now_ms, last, 429,
                                         HTTPException("too many chunks"))
                         /\ asr_rl' = asr_rl_on_reject(asr_rl, sid, now_ms)
                         /\ UNCHANGED req
                    ELSE /\ asr_rl' = Put(asr_rl, sid, now_ms)
                         /\ req' = [req EXCEPT ![r] = AtBody(sid)]
                         /\ resp' = Suspended(sid, now_ms, last)
               ELSE /\ req' = [req EXCEPT ![r] = AtBody(sid)]
                    /\ resp' = Suspended(sid, NoTime, NoTime)
                    /\ UNCHANGED asr_rl
    /\ UNCHANGED <<cfg, models, manifest, clock, mod>>

\* mutant: the moderation flag is not consulted
detections_of_unconditional(text, phobert, conf, infer, run_mod) ==
    LET text_for_mod == Strip(text) IN
    IF text_for_mod # << >>
    THEN LET mod_out == predict(<<text_for_mod>>, phobert, conf, infer)
         IN [i \in 1..Len(mod_out) |->
                [label |-> mod_out[i].label, score |-> mod_out[i].score,
                 startMs |-> 0, endMs |-> 0, snippet |-> Prefix(text_for_mod, 100)]]
    ELSE << >>

\* mutant: the snippet is the whole trimmed transcript
detections_of_whole_snippet(text, phobert, conf, infer, run_mod) ==
    LET text_for_mod == Strip(text) IN
    IF run_mod /\ text_for_mod # << >>
    THEN LET mod_out == predict(<<text_for_mod>>, phobert, conf, infer)
         IN [i \in 1..Len(mod_out) |->
                [label |-> mod_out[i].label, score |-> mod_out[i].score,
                 startMs |-> 0, endMs |-> 0, snippet |-> text_for_mod]]
    ELSE << >>

\* the detections of one chunk (asr.py:52-67)
detections_of(text, phobert, conf, infer, run_mod) ==
    LET text_for_mod == Strip(text) IN
    IF run_mod /\ text_for_mod # << >>
    THEN LET mod_out == predict(<<text_for_mod>>, phobert, conf, infer)
         IN [i \in 1..Len(mod_out) |->
                [label |-> mod_out[i].label, score |-> mod_out[i].score,
                 startMs |-> 0, endMs |-> 0, snippet |-> Prefix(text_for_mod, 100)]]
    ELSE << >>

\* mutant: any x-final header, even "false", packs the transcript as final
\* and keeps the partial field
payload_of_any_header(text, detections, x_final) ==
    IF x_final # None
    THEN [status |-> "ok", detections |-> detections,
          final |-> [text |-> text, words |-> << >>], partial |-> [text |-> text]]
    ELSE [status |-> "ok", detections |-> detections, partial |-> [text |-> text]]

\* the payload (asr.py:69-75)
payload_of(text, detections, x_final) ==
    IF x_final = "true"
    THEN [status |-> "ok", detections |-> detections,
          final |-> [text |-> text, words |-> << >>]]
    ELSE [status |-> "ok", detections |-> detections, partial |-> [text |-> text]]

AsrDists == {<<5, 5, 90>>}

\* mutant: a failure of the whisper model is not caught and surfaces as 500
ok_response_unguarded(sid, data, final, whisper, infer) ==
    IF models.whisper /\ whisper.raises
    THEN Sent(API_KEY, sid, final, data, NoTime, NoTime, 500,
              HTTPException("Internal Server Error"))
    ELSE LET res == transcribe_bytes(data, models.whisper, whisper)
             detections == detections_of(res.text, models.phobert, Conf, infer,
                                         cfg.ASR_RUN_MOD)
         IN Sent(API_KEY, sid, final, data, NoTime, NoTime, 200,
                 payload_of(res.text, detections, final))

\* transcription, moderation and the payload (asr.py:47-75)
ok_response(sid, data, final, whisper, infer) ==
    LET res == transcribe_bytes(data, models.whisper, whisper)
        detections == detections_of(res.text, models.phobert, Conf, infer,
                                    cfg.ASR_RUN_MOD)
    IN Sent(API_KEY, sid, final, data, NoTime, NoTime, 200,
            payload_of(res.text, detections, final))

\* the response of asr_stream from the body on (asr.py:39-75)
asr_stream_response(sid, data, final, whisper, infer) ==
    IF empty_body(data)
    THEN Sent(API_KEY, sid, final, data, NoTime, NoTime, 400,
              HTTPException("empty body"))
    ELSE IF malformed_pcm(data)
    THEN Sent(API_KEY, sid, final, data, NoTime, NoTime, 400,
              HTTPException("malformed PCM16LE"))
    ELSE ok_response(sid, data, final, whisper, infer)

\* the second step of asr_stream: the body arrives and the call resumes.  An
\* empty or malformed body is answered at once; otherwise the call enters
\* transcribe_bytes, a synchronous call made from the coroutine
asr_stream_body(r) ==
    /\ req[r].pc = "body"
    /\ ~LoopBusy
    /\ \E data \in BodyLens, final \in FinalHeaders :
         IF empty_body(data) \/ malformed_pcm(data)
         THEN /\ resp' = asr_stream_response(req[r].x_session_id, data, final,
                                             NotCalled, Infer(FALSE, << >>))
              /\ req' = [req EXCEPT ![r] = Idle]
         ELSE /\ req' = [req EXCEPT ![r] = InCall(req[r].x_session_id, data, final)]
              /\ UNCHANGED resp
    /\ UNCHANGED <<cfg, models, manifest, clock, asr_rl, mod>>

\* mutant: answering a final chunk closes the session, by recording a time
\* no later chunk can be far enough from
asr_rl_on_response_closes(tbl, sid, x_final) ==
    IF x_final = "true" THEN Put(tbl, sid, MaxClock + 1) ELSE tbl

\* _asr_rl after the response is built: asr.py:39-75 neither reads nor writes
\* the table, and nothing else is kept about a session
asr_rl_on_response(tbl, sid, x_final) == tbl

\* the third step of asr_stream: transcription and moderation return and the
\* response is sent
asr_stream_respond_on(r, Outcomes) ==
    /\ req[r].pc = "call"
    /\ \E whisper \in Outcomes :
       \E infer \in IF cfg.ASR_RUN_MOD
                    THEN UNION {InferChoices(models.phobert, <<d>>) : d \in AsrDists}
                    ELSE {Infer(FALSE, << >>)} :
          resp' = asr_stream_response(req[r].x_session_id, req[r].data,
                                      req[r].x_final, whisper, infer)
    /\ req' = [req EXCEPT ![r] = Idle]
    /\ asr_rl' = asr_rl_on_response(asr_rl, req[r].x_session_id, req[r].x_final)
    /\ UNCHANGED <<cfg, models, manifest, clock, mod>>

asr_stream_respond(r) == asr_stream_respond_on(r, WhisperOutcomes(models.whisper))

\* the wall clock advances, and can be set back
Tick ==
    /\ clock < MaxClock
    /\ clock' = clock + 1
    /\ UNCHANGED <<cfg, models, manifest, asr_rl, req, resp, mod>>

ClockSetBack ==
    /\ clock > 1
    /\ clock' = clock - 1
    /\ UNCHANGED <<cfg, models, manifest, asr_rl, req, resp, mod>>

\* ------------------------------------------------- specifications
\* the process after startup (lifespan has set app.state.models)
InitCommon ==
    /\ clock = 1
    /\ asr_rl = EmptyDict
    /\ req = [r \in Reqs |-> Idle]
    /\ resp = NoResponse
    /\ mod = NoExchange

\* deployments of the streaming endpoint: minimum interval, moderation flag,
\* whisper loaded or not, classifier snapshot.  The bare deployment (nothing
\* loaded, moderation off) is taken with every minimum interval; with the
\* rate limit off (0) also the full one (everything loaded, moderation on)
\* and the ones where only one of whisper and the classifier is loaded, with
\* the moderation flag on when it is the classifier that is missing.
AsrDeployments ==
    {d \in [mi : MinIntervalChoices, run_mod : BOOLEAN, whisper : BOOLEAN,
            phobert : {NoPhobert, HfPhobert(NamedTable)}] :
        \/ ~d.run_mod /\ ~d.whisper /\ d.phobert = NoPhobert
        \/ d.mi = 0 /\ d.run_mod /\ d.whisper
        \/ d.mi = 0 /\ ~d.run_mod /\ ~d.whisper /\ d.phobert # NoPhobert}

Init ==
    /\ InitCommon
    /\ \E d \in AsrDeployments :
         /\ cfg = [ASR_MIN_INTERVAL_MS |-> d.mi, ASR_RUN_MOD |-> d.run_mod,
                   LABEL_MAP |-> DefaultLabelMap,
                   PHOBERT_BLOCK_THRESHOLD |-> 90, PHOBERT_WARN_THRESHOLD |-> 80]
         /\ models = [whisper |-> d.whisper, phobert |-> d.phobert]
    /\ manifest = [state |-> "absent", entries |-> << >>]

Next ==
    \/ \E r \in Reqs : asr_stream_begin(r)
    \/ \E r \in Reqs : asr_stream_body(r)
    \/ \E r \in Reqs : asr_stream_respond(r)
    \/ Tick
    \/ ClockSetBack

Spec == Init /\ [][Next]_vars

\* classifier deployments of the moderation endpoint: snapshot and manifest
ModDeployments ==
    {<<NoPhobert, [state |-> "absent", entries |-> << >>]>>,
     <<NoTokenizerPhobert, [state |-> "absent", entries |-> << >>]>>,
     <<HfPhobert(NamedTable), SwappedTable>>,
     <<HfPhobert(GenericTable), [state |-> "absent", entries |-> << >>]>>,
     <<HfPhobert(CodedTable), [state |-> "absent", entries |-> << >>]>>,
     <<HfPhobert(BadKeyTable), SwappedTable>>,
     <<HfPhobert(BadKeyTable), RaisingTable>>,
     <<OnnxPhobert, SwappedTable>>,
     <<OnnxPhobert, [state |-> "absent", entries |-> << >>]>>}

InitMod ==
    /\ InitCommon
    /\ \E c \in ModConfigs :
         cfg = [ASR_MIN_INTERVAL_MS |-> 0, ASR_RUN_MOD |-> FALSE,
                LABEL_MAP |-> c.LABEL_MAP,
                PHOBERT_BLOCK_THRESHOLD |-> c.th[1], PHOBERT_WARN_THRESHOLD |-> c.th[2]]
    /\ \E dp \in ModDeployments :
         /\ models = [whisper |-> FALSE, phobert |-> dp[1]]
         /\ manifest = dp[2]

NextMod ==
    \/ moderation
    \/ moderation_done

SpecMod == InitMod /\ [][NextMod]_vars

\* both endpoints of one process, with a frozen clock and few moderation
\* requests, in the deployments with a minimum interval >= 0
BothInputs ==
    {[inputs |-> << <<"d", "m">> >>, probs |-> << <<5, 5, 90>> >>],
     [inputs |-> << <<"w", "a", "r", "n", "i", "n", "g">> >>,
      probs |-> << <<90, 5, 5>> >>],
     [inputs |-> << XinChao >>, probs |-> << <<90, 5, 5>> >>],
     [inputs |-> << XinChao >>, probs |-> << <<5, 5, 90>> >>]}

InitBoth ==
    /\ InitCommon
    /\ \E d \in {d \in AsrDeployments : d.mi >= 0} :
         /\ cfg = [ASR_MIN_INTERVAL_MS |-> d.mi, ASR_RUN_MOD |-> d.run_mod,
                   LABEL_MAP |-> DefaultLabelMap,
                   PHOBERT_BLOCK_THRESHOLD |-> 90, PHOBERT_WARN_THRESHOLD |-> 80]
         /\ models = [whisper |-> d.whisper, phobert |-> d.phobert]
    /\ manifest = [state |-> "absent", entries |-> << >>]

NextBoth ==
    \/ \E r \in Reqs : asr_stream_begin(r)
    \/ \E r \in Reqs : asr_stream_body(r)
    \/ \E r \in Reqs : asr_stream_respond(r)
    \/ moderation_call(BothInputs)
    \/ moderation_done

SpecBoth == InitBoth /\ [][NextBoth]_vars

\* ------------------------- the rate limit with a clock that keeps advancing
\* a request for session s with the valid key arrives
Resubmit(s) ==
    \E r \in Reqs :
        /\ asr_stream_begin(r)
        /\ resp'.x_api_key = API_KEY
        /\ resp'.x_session_id = s

InitLive ==
    /\ InitCommon
    /\ cfg = [ASR_MIN_INTERVAL_MS |-> MinIntervalMs, ASR_RUN_MOD |-> FALSE,
              LABEL_MAP |-> DefaultLabelMap,
              PHOBERT_BLOCK_THRESHOLD |-> 90, PHOBERT_WARN_THRESHOLD |-> 80]
    /\ models = [whisper |-> FALSE, phobert |-> NoPhobert]
    /\ manifest = [state |-> "absent", entries |-> << >>]

\* a call in flight goes on: its body, a valid chunk, arrives, or its
\* synchronous part ends
Proceed ==
    \/ \E r \in Reqs : asr_stream_body(r) /\ req'[r].pc = "call"
    \/ \E r \in Reqs : asr_stream_respond(r)

NextLive ==
    \/ \E s \in SessionIds : Resubmit(s)
    \/ Proceed
    \/ Tick

\* the clock is never set back and keeps advancing (up to MaxClock); a body
\* that is awaited arrives and the event loop resumes the call, and a
\* synchronous call returns; every session keeps sending valid chunks with
\* the valid key
SpecLive ==
    /\ InitLive
    /\ [][NextLive]_vars
    /\ WF_vars(Tick)
    /\ WF_vars(Proceed)
    /\ \A s \in SessionIds : SF_vars(Resubmit(s))

\* ----------------------------- the streaming endpoint with moderation on
\* moderation enabled, no rate limit, whisper and the classifier loaded or
\* not, and a whisper model that can also yield a long transcript
InitSnippet ==
    /\ InitCommon
    /\ cfg = [ASR_MIN_INTERVAL_MS |-> 0, ASR_RUN_MOD |-> TRUE,
              LABEL_MAP |-> DefaultLabelMap,
              PHOBERT_BLOCK_THRESHOLD |-> 90, PHOBERT_WARN_THRESHOLD |-> 80]
    /\ \E w \in BOOLEAN, ph \in {NoPhobert, HfPhobert(NamedTable)} :
         models = [whisper |-> w, phobert |-> ph]
    /\ manifest = [state |-> "absent", entries |-> << >>]

NextSnippet ==
    \/ \E r \in Reqs : asr_stream_begin(r)
    \/ \E r \in Reqs : asr_stream_body(r)
    \/ \E r \in Reqs : asr_stream_respond_on(r, LongOutcomes(models.whisper))

SpecSnippet == InitSnippet /\ [][NextSnippet]_vars

\* ------------------------------------------- transcribe_bytes called alone
\* segment texts a loaded model can yield
SegmentTexts == {<< >>, <<" ">>, <<" ", "d", "m">>, <<" ", "x", " ">>, XinChao}

\* what model.transcribe does when it is called: raises, or yields up to two
\* segments
TranscribeOutcomes ==
    {[raises |-> TRUE, segments |-> << >>]} \cup
    {[raises |-> FALSE, segments |-> sg] :
        sg \in {<< >>} \cup SeqsOfLen(SegmentTexts, 1) \cup SeqsOfLen(SegmentTexts, 2)}

\* a call transcribe_bytes(data, model=model) about to be made
TranscribeArgs(data, whisper) ==
    [pc |-> "args", data |-> data, whisper |-> whisper,
     result |-> [text |-> << >>, segments |-> << >>]]

\* any byte length, odd ones included, with the model loaded or not
InitTranscribe ==
    /\ clock = 1
    /\ asr_rl = EmptyDict
    /\ req = [r \in Reqs |-> Idle]
    /\ mod = NoExchange
    /\ cfg = [ASR_MIN_INTERVAL_MS |-> 0, ASR_RUN_MOD |-> FALSE,
              LABEL_MAP |-> DefaultLabelMap,
              PHOBERT_BLOCK_THRESHOLD |-> 90, PHOBERT_WARN_THRESHOLD |-> 80]
    /\ manifest = [state |-> "absent", entries |-> << >>]
    /\ \E model \in BOOLEAN :
         /\ models = [whisper |-> model, phobert |-> NoPhobert]
         /\ \E data \in 0..(MaxBodyLen + 1) :
            \E whisper \in IF model THEN TranscribeOutcomes ELSE {NotCalled} :
               resp = TranscribeArgs(data, whisper)

\* the call returns
transcribe_call ==
    /\ resp.pc = "args"
    /\ resp' = [resp EXCEPT !.pc = "returned",
                            !.result = transcribe_bytes(resp.data, models.whisper,
                                                        resp.whisper)]
    /\ UNCHANGED <<cfg, models, manifest, clock, asr_rl, req, mod>>

NextTranscribe == transcribe_call

SpecTranscribe == InitTranscribe /\ [][NextTranscribe]_vars

\* ------------------------------------- the manifest changing under a snapshot
\* what config.json next to the tokenizer can hold; predict opens the file on
\* every call (bert_service.py:62-66), so a rewrite is seen by the next call
ManifestChoices ==
    {[state |-> "absent", entries |-> << >>], NamedTable, SwappedTable, RaisingTable}

\* config.json is rewritten, created or removed while the service runs
manifest_rewritten ==
    /\ \E m \in ManifestChoices : m # manifest /\ manifest' = m
    /\ UNCHANGED <<cfg, models, clock, asr_rl, req, resp, mod>>

\* the client repeats the request it holds a 200 response for, and the
\* classifier answers as before: moderation(body, request) once more
moderation_again ==
    /\ mod.status = 200
    /\ mod' = [mod EXCEPT !.results = predict(mod.inputs, models.phobert, Conf, mod.infer)]
    /\ UNCHANGED <<cfg, models, manifest, clock, asr_rl, req, resp>>

InitManifest ==
    /\ InitCommon
    /\ cfg = [ASR_MIN_INTERVAL_MS |-> 0, ASR_RUN_MOD |-> FALSE,
              LABEL_MAP |-> DefaultLabelMap,
              PHOBERT_BLOCK_THRESHOLD |-> 90, PHOBERT_WARN_THRESHOLD |-> 80]
    /\ \E ph \in {OnnxPhobert, HfPhobert(NamedTable), HfPhobert(BadKeyTable)} :
         models = [whisper |-> FALSE, phobert |-> ph]
    /\ manifest \in ManifestChoices

NextManifest ==
    \/ moderation_call(BothInputs)
    \/ moderation_again
    \/ moderation_done
    \/ manifest_rewritten

SpecManifest == InitManifest /\ [][NextManifest]_vars

\* ========================================================== claims
\* ---- C1
\* With a minimum interval M > 0: a chunk of a session that reaches the
\* admission check less than M ms after the session's last admitted chunk is
\* rejected 429 (the earlier one stays admitted); one that arrives M ms or
\* more after it, or is the session's first, is admitted.
C1_MinInterval ==
    cfg.ASR_MIN_INTERVAL_MS > 0 =>
        /\ (resp.pc = "early" /\ resp.status = 429) =>
              /\ resp.last # NoTime
              /\ resp.now_ms - resp.last < cfg.ASR_MIN_INTERVAL_MS
              /\ Get(asr_rl, resp.x_session_id, NoTime) # NoTime
        /\ resp.pc = "await" =>
              /\ resp.last # NoTime =>
                    resp.now_ms - resp.last >= cfg.ASR_MIN_INTERVAL_MS
              /\ resp.x_session_id \in DOMAIN asr_rl

\* a second chunk rejected because it came less than M ms after the first
C1_Witness ==
    /\ cfg.ASR_MIN_INTERVAL_MS > 0
    /\ resp.status = 429
    /\ resp.now_ms - resp.last >= 0
    /\ resp.now_ms - resp.last < cfg.ASR_MIN_INTERVAL_MS

\* ---- C2
\* Every authenticated chunk submission with a session id and a body of odd
\* length is rejected 400 "malformed PCM16LE", whatever the rate-limit table
\* holds.
C2_OddBodyMalformed ==
    (/\ resp.pc \in {"early", "sent"}
     /\ resp.x_api_key = API_KEY
     /\ resp.x_session_id \in SessionIds
     /\ resp.data % 2 = 1)
    => (resp.status = 400 /\ resp.body.detail = "malformed PCM16LE")

\* ---- C3
\* (as claimed) Every admitted chunk whose body has even length, zero
\* included, is transcribed and answered without error.
C3_EvenBodyTranscribed ==
    (resp.pc = "sent" /\ resp.data % 2 = 0) => resp.status = 200

\* (amended) Every admitted chunk whose body has non-zero even length is
\* transcribed and answered 200 with status ok and the transcript; an
\* admitted chunk with a zero-length body is rejected 400 "empty body".
C3_NonEmptyEvenTranscribed ==
    resp.pc = "sent" =>
        /\ resp.data = 0 => (resp.status = 400 /\ resp.body.detail = "empty body")
        /\ (resp.data > 0 /\ resp.data % 2 = 0) =>
              /\ resp.status = 200
              /\ resp.body.status = "ok"
              /\ LET t == IF "final" \in DOMAIN resp.body THEN resp.body.final.text
                          ELSE resp.body.partial.text
                 IN ~models.whisper => t = XinChao

C3_Witness ==
    /\ resp.pc = "sent"
    /\ resp.data = 2
    /\ resp.status = 200
    /\ ~models.whisper
    /\ resp.body.partial.text = XinChao

\* ---- C4
\* An authenticated chunk submission without a session id (absent or empty
\* header) is rejected 400 "missing x-session-id" before any other check:
\* whatever its body, its final flag and the rate-limit table, and without
\* reading the clock or touching the table.
C4_MissingSession ==
    /\ (/\ resp.pc \in {"early", "await", "sent"}
        /\ resp.x_api_key = API_KEY
        /\ resp.x_session_id \in {None, ""})
       => /\ resp.pc = "early"
          /\ resp.status = 400
          /\ resp.body.detail = "missing x-session-id"
          /\ resp.now_ms = NoTime
    /\ DOMAIN asr_rl \subseteq SessionIds
    /\ \A r \in Reqs : req[r].pc = "body" => req[r].x_session_id \in SessionIds

C4_Witness ==
    /\ resp.status = 400
    /\ resp.x_session_id = ""
    /\ resp.data % 2 = 1
    /\ resp.x_final = "true"
    /\ asr_rl # EmptyDict

\* ---- C5
\* A successful chunk response holds exactly one of `final` and `partial`:
\* `final` when x-final is true, `partial` when it is false or absent.
C5_FinalXorPartial ==
    (resp.pc = "sent" /\ resp.status = 200) =>
        IF resp.x_final = "true"
        THEN "final" \in DOMAIN resp.body /\ "partial" \notin DOMAIN resp.body
        ELSE "partial" \in DOMAIN resp.body /\ "final" \notin DOMAIN resp.body

C5_Witness ==
    /\ resp.pc = "sent"
    /\ resp.status = 200
    /\ resp.x_final = "false"
    /\ "partial" \in DOMAIN resp.body

ModelCompleted ==
    /\ model_path_ok(models.phobert, mod.infer)
    /\ loop_completes(mod.inputs, cfg.PHOBERT_BLOCK_THRESHOLD,
                      cfg.PHOBERT_WARN_THRESHOLD)

\* ---- C7
\* predict returns exactly one result per input, result i being the decision
\* for input i: the model-assisted decision of input i with row i when the
\* model path completes, the heuristic decision of input i in heuristic-only
\* mode and when the model path fails.
C7_OnePerInput ==
    mod.status = 200 =>
        /\ Len(mod.results) = Len(mod.inputs)
        /\ \A i \in 1..Len(mod.inputs) :
              mod.results[i] =
                 IF ModelCompleted
                 THEN predict_item(mod.inputs[i], mod.infer.probs[i],
                          resolve_id2label(models.phobert, manifest, cfg.LABEL_MAP),
                          cfg.PHOBERT_BLOCK_THRESHOLD, cfg.PHOBERT_WARN_THRESHOLD)
                 ELSE heuristic_item(mod.inputs[i])

\* a batch of two decided by the model path with two different decisions
C7_Witness ==
    /\ mod.status = 200
    /\ Len(mod.inputs) = 2
    /\ ModelCompleted
    /\ mod.results[1] # mod.results[2]

\* ---- C8
\* When the decision is the heuristic's (no classifier, or the model path
\* failed): a text whose lower-cased form contains a block keyword of the
\* heuristic list gets (block, 0.95); otherwise one that contains a warn
\* keyword gets (warn, 0.8); otherwise (safe, 0.98).  A text with both a
\* block and a warn keyword is decided block.
C8_Heuristic ==
    (mod.status = 200 /\ ~model_path_ok(models.phobert, mod.infer)) =>
        \A i \in 1..Len(mod.inputs) :
            LET sl == Lower(mod.inputs[i])
                blk == \E k \in HEUR_BLOCK_KEYS : Contains(k, sl)
                wrn == \E k \in HEUR_WARN_KEYS : Contains(k, sl)
            IN mod.results[i] =
                  IF blk THEN [label |-> "block", score |-> 95]
                  ELSE IF wrn THEN [label |-> "warn", score |-> 80]
                  ELSE [label |-> "safe", score |-> 98]

\* "dm warning" holds a block and a warn keyword and is decided block
C8_Witness ==
    /\ mod.status = 200
    /\ models.phobert = NoPhobert
    /\ mod.inputs = << <<"d", "m", " ", "w", "a", "r", "n", "i", "n", "g">> >>
    /\ mod.results = << [label |-> "block", score |-> 95] >>

\* the largest probability of a row
RowMax(p) == CHOOSE v \in {p[j] : j \in 1..Len(p)} : \A j \in 1..Len(p) : p[j] <= v

\* ---- C9
\* In model-assisted mode, a text whose lower-cased form contains a keyword
\* of the model-assisted block list is decided block with score
\* max(largest probability of its row, 0.9), whatever the row is, also when
\* its largest probability is for safe.
C9_KeywordOverridesModel ==
    (mod.status = 200 /\ ModelCompleted) =>
        \A i \in 1..Len(mod.inputs) :
            (\E k \in hard_block : Contains(k, Lower(mod.inputs[i]))) =>
                mod.results[i] =
                    [label |-> "block", score |-> Max(RowMax(mod.infer.probs[i]), 90)]

\* "dm" with a row whose top probability, 0.95, is for safe: (block, 0.95)
C9_Witness ==
    /\ mod.status = 200
    /\ models.phobert = HfPhobert(NamedTable)
    /\ model_path_ok(models.phobert, mod.infer)
    /\ mod.inputs = << <<"d", "m">> >>
    /\ mod.infer.probs = << <<95, 5, 0>> >>
    /\ mod.results = << [label |-> "block", score |-> 95] >>

\* ---- C10
\* In model-assisted mode, for a text without keyword match, with P(l) the
\* probability the resolved label space gives label l (0 when it has no such
\* label): P(block) >= block threshold gives (block, P(block)); otherwise
\* P(warn) >= warn threshold gives (warn, P(warn)); otherwise the argmax
\* label with its probability.  When both conditions hold the decision is
\* block.
C10_ThresholdCascade ==
    (mod.status = 200 /\ ModelCompleted) =>
        \A i \in 1..Len(mod.inputs) :
            LET text == Lower(mod.inputs[i])
                row == mod.infer.probs[i]
                space == resolve_id2label(models.phobert, manifest, cfg.LABEL_MAP)
                P == label_probs_loop(row, 0, space, EmptyDict)
                top == CHOOSE j \in 1..Len(row) :
                          row[j] = RowMax(row) /\ \A h \in 1..(j - 1) : row[h] < row[j]
            IN (~\E k \in hard_block \cup warn_keys : Contains(k, text)) =>
                  mod.results[i] =
                     IF Get(P, "block", 0) >= cfg.PHOBERT_BLOCK_THRESHOLD
                     THEN [label |-> "block", score |-> Get(P, "block", 0)]
                     ELSE IF Get(P, "warn", 0) >= cfg.PHOBERT_WARN_THRESHOLD
                     THEN [label |-> "warn", score |-> Get(P, "warn", 0)]
                     ELSE [label |-> Get(space, top - 1, IntStr(top - 1)),
                           score |-> RowMax(row)]

\* both thresholds are met (0.45 each, P(block) = P(warn) = 0.45): block
C10_Witness ==
    /\ mod.status = 200
    /\ models.phobert = HfPhobert(NamedTable)
    /\ model_path_ok(models.phobert, mod.infer)
    /\ cfg.PHOBERT_BLOCK_THRESHOLD = 45
    /\ cfg.PHOBERT_WARN_THRESHOLD = 45
    /\ mod.inputs = << XinChao >>
    /\ mod.infer.probs = << <<10, 45, 45>> >>
    /\ mod.results = << [label |-> "block", score |-> 45] >>

\* ---- C11
\* predict never raises, and whenever a step of the model path fails
\* (tokenisation or inference, or reading a threshold for some item) the call
\* returns the heuristic decision of every input of the batch: no
\* model-derived decision of an earlier item is kept.
C11_FullFallback ==
    (mod.x_api_key = API_KEY /\ mod.inputs # << >>) =>
        /\ mod.status = 200
        /\ (classifier_called(models.phobert) /\ ~ModelCompleted) =>
              /\ Len(mod.results) = Len(mod.inputs)
              /\ \A i \in 1..Len(mod.inputs) :
                    LET sl == Lower(mod.inputs[i]) IN
                    mod.results[i] =
                       IF \E k \in HEUR_BLOCK_KEYS : Contains(k, sl)
                       THEN [label |-> "block", score |-> 95]
                       ELSE IF \E k \in HEUR_WARN_KEYS : Contains(k, sl)
                       THEN [label |-> "warn", score |-> 80]
                       ELSE [label |-> "safe", score |-> 98]

\* "dm" then "xin chao" with row <<5, 5, 90>> each: the model path decides
\* (block, 0.9) for "dm", then fails on the threshold read for "xin chao";
\* the call returns the heuristic (block, 0.95), (safe, 0.98)
C11_Witness ==
    /\ mod.status = 200
    /\ model_path_ok(models.phobert, mod.infer)
    /\ cfg.PHOBERT_BLOCK_THRESHOLD = NotAFloat
    /\ mod.inputs = << <<"d", "m">>, XinChao >>
    /\ mod.infer.probs = << <<5, 5, 90>>, <<5, 5, 90>> >>
    /\ mod.results = << [label |-> "block", score |-> 95],
                        [label |-> "safe", score |-> 98] >>

\* the inverse of a label map given as <<name, index>> pairs: index -> the
\* name of the last pair with that index
InverseOf(lm) ==
    [n \in {lm[j][2] : j \in 1..Len(lm)} |->
        lm[CHOOSE j \in 1..Len(lm) :
              lm[j][2] = n /\ \A h \in (j + 1)..Len(lm) : lm[h][2] # n][1]]

\* a raw table that is a non-empty dict every entry of which normalises
SourceUsable(src) ==
    /\ src.state = "dict"
    /\ src.entries # << >>
    /\ \A j \in 1..Len(src.entries) :
          src.entries[j].k.num /\ src.entries[j].v.kind \in {"str", "int"}

\* the whole table normalised: int key -> label name
NormalisedOf(src, lm) ==
    LET es == src.entries IN
    [n \in {es[j].k.n : j \in 1..Len(es)} |->
        LET v == es[CHOOSE j \in 1..Len(es) :
                       es[j].k.n = n /\ \A h \in (j + 1)..Len(es) : es[h].k.n # n].v
        IN IF v.kind = "str" THEN v.s ELSE Get(InverseOf(lm), v.n, IntStr(v.n))]

\* the mapping resolution is to end with in the deployment of the state
ExpectedLabelSpace ==
    IF models.phobert.has_model /\ SourceUsable(models.phobert.id2label)
    THEN NormalisedOf(models.phobert.id2label, cfg.LABEL_MAP)
    ELSE IF /\ models.phobert.name_or_path
            /\ manifest.state # "absent"
            /\ SourceUsable(manifest)
    THEN NormalisedOf(manifest, cfg.LABEL_MAP)
    ELSE InverseOf(cfg.LABEL_MAP)

\* ---- C12
\* Label resolution always ends with an index-to-label mapping: the
\* classifier's own table when it is present and normalises as a whole,
\* otherwise the manifest's table when it is present and normalises as a
\* whole, otherwise the inverse of the configured label map.  A source that is
\* absent, empty, or fails part-way contributes nothing, and the decisions of
\* a completed model-path call are those made with that mapping.
C12_ResolutionTotal ==
    /\ resolve_id2label(models.phobert, manifest, cfg.LABEL_MAP) = ExpectedLabelSpace
    /\ (mod.status = 200 /\ ModelCompleted) =>
          \A i \in 1..Len(mod.inputs) :
              mod.results[i] =
                  predict_item(mod.inputs[i], mod.infer.probs[i], ExpectedLabelSpace,
                               cfg.PHOBERT_BLOCK_THRESHOLD, cfg.PHOBERT_WARN_THRESHOLD)

\* the classifier's table fails at its second key after mapping index 0 to
\* block, reading the manifest raises: the row <<0.9, 0.05, 0.05>> is decided
\* with the inverse of the configured map, (safe, 0.9), not (block, 0.9)
C12_Witness ==
    /\ mod.status = 200
    /\ ModelCompleted
    /\ models.phobert = HfPhobert(BadKeyTable)
    /\ manifest = RaisingTable
    /\ cfg.LABEL_MAP = DefaultLabelMap
    /\ mod.inputs = << XinChao >>
    /\ mod.infer.probs = << <<90, 5, 5>> >>
    /\ mod.results = << [label |-> "safe", score |-> 90] >>

\* ---- C13
\* A request to either endpoint whose API key is absent or wrong is answered
\* 401 and nothing else happens: the rate-limit table is neither read nor
\* written, no call is left waiting for its body, nothing is transcribed and
\* nothing is classified, whatever session id and body the request carries.
C13_RejectedBeforeCore ==
    [][ /\ (resp' # resp /\ resp'.x_api_key # API_KEY) =>
              /\ resp'.pc = "early"
              /\ resp'.status = 401
              /\ resp'.body = [detail |-> "invalid api key"]
              /\ resp'.now_ms = NoTime /\ resp'.last = NoTime
              /\ asr_rl' = asr_rl
              /\ req' = req
        /\ (mod' # mod /\ mod' # NoExchange /\ mod'.x_api_key # API_KEY) =>
              /\ mod'.status = 401
              /\ mod'.results = << >>
              /\ asr_rl' = asr_rl ]_vars

\* both endpoints have rejected a request that was valid but for its key:
\* a chunk of session s1, which has no entry in the table, and a moderation
\* input with a block keyword
C13_Witness ==
    /\ resp.status = 401
    /\ resp.x_session_id = "s1"
    /\ resp.data = 2
    /\ "s1" \notin DOMAIN asr_rl
    /\ "s2" \in DOMAIN asr_rl
    /\ mod.status = 401
    /\ mod.inputs = << <<"d", "m">> >>

\* ---- C14
\* With M > 0, in every interleaving of concurrent calls: a call that is
\* admitted has observed the entry the table holds at that very step (no
\* other call gets between its check and its update), it records its own
\* arrival time, and that time is at least M after the entry it replaces.
\* So no two admitted chunks of a session have recorded times less than M
\* apart.
C14_AtomicAdmission ==
    [][ cfg.ASR_MIN_INTERVAL_MS > 0 =>
          \A r \in Reqs :
             (req[r].pc = "idle" /\ req'[r].pc = "body") =>
                LET sid == req'[r].x_session_id IN
                /\ resp'.pc = "await"
                /\ resp'.last = Get(asr_rl, sid, NoTime)
                /\ asr_rl' = Put(asr_rl, sid, clock)
                /\ sid \in DOMAIN asr_rl =>
                      asr_rl'[sid] - asr_rl[sid] >= cfg.ASR_MIN_INTERVAL_MS ]_vars

\* two calls of one session are in flight at once, the second admitted M or
\* more after the first
C14_Witness ==
    /\ cfg.ASR_MIN_INTERVAL_MS > 0
    /\ req["r1"].pc = "body" /\ req["r2"].pc = "body"
    /\ req["r1"].x_session_id = req["r2"].x_session_id
    /\ resp.pc = "await"
    /\ resp.last # NoTime
    /\ resp.now_ms - resp.last >= cfg.ASR_MIN_INTERVAL_MS

\* ---- C15
\* With a minimum interval <= 0 no submission is ever rejected 429, and the
\* arrival time of each admitted chunk is still recorded: the session of
\* every admitted call has an entry in the table.
C15_DisabledStillRecords ==
    cfg.ASR_MIN_INTERVAL_MS <= 0 =>
        /\ resp.status # 429
        /\ \A r \in Reqs :
              req[r].pc = "body" => req[r].x_session_id \in DOMAIN asr_rl

\* ---- C16
\* With moderation disabled every successful chunk response has an empty
\* detections list, whatever the transcript and whether or not a classifier
\* is loaded: predict, which returns one decision for the one text it is
\* given, is not called.
C16_ModerationOnlyWhenEnabled ==
    (~cfg.ASR_RUN_MOD /\ resp.pc = "sent" /\ resp.status = 200) =>
        resp.body.detections = << >>

\* moderation is off, a classifier is loaded and the transcript is
\* "xin chao": no detection
C16_Witness ==
    /\ ~cfg.ASR_RUN_MOD
    /\ models.phobert.truthy
    /\ resp.pc = "sent"
    /\ resp.status = 200
    /\ resp.x_final = "true"
    /\ resp.body.final.text = XinChao
    /\ resp.body.detections = << >>

\* ---- C17
\* Every result of the moderation endpoint and every detection of a chunk
\* response has a score between 0 and 1 (0..100 hundredths): the heuristic's
\* fixed scores, the keyword-override scores, the threshold scores and the
\* argmax score.
C17_ScoreRange ==
    /\ mod.status = 200 =>
          \A i \in 1..Len(mod.results) :
              mod.results[i].score >= 0 /\ mod.results[i].score <= 100
    /\ (resp.pc = "sent" /\ resp.status = 200) =>
          \A i \in 1..Len(resp.body.detections) :
              /\ resp.body.detections[i].score >= 0
              /\ resp.body.detections[i].score <= 100

\* the classifier gave the chunk's transcript P(block) = 0.9 and the
\* moderation input "warning" P(warn) = 0.05: a detection of score 0.9 and a
\* warn result scored max(0.05, 0.6)
C17_Witness ==
    /\ models.phobert = HfPhobert(NamedTable)
    /\ resp.pc = "sent" /\ resp.status = 200
    /\ Len(resp.body.detections) = 1
    /\ resp.body.detections[1] .label = "block"
    /\ resp.body.detections[1].score = 90
    /\ mod.status = 200
    /\ mod.results = << [label |-> "warn", score |-> 60] >>

\* ---- C18
\* A chunk rejected as empty or malformed records no admission time: when
\* the only call in flight for a session, admitted in the previous step, is
\* answered 400 after its body is read, the session's entry is what it was
\* before that chunk arrived (so the chunk cannot make the next valid chunk
\* of the session be rejected 429).
C18_ValidateBeforeAdmit ==
    [][ (/\ cfg.ASR_MIN_INTERVAL_MS > 0
         /\ resp.pc = "await"
         /\ resp'.pc = "sent"
         /\ resp'.status = 400
         /\ resp'.x_session_id = resp.x_session_id
         /\ Cardinality({r \in Reqs : /\ req[r].pc = "body"
                                      /\ req[r].x_session_id = resp.x_session_id}) = 1)
        => Get(asr_rl', resp.x_session_id, NoTime) = resp.last ]_vars

\* ---- C19
\* On admission the session's entry is overwritten with the arrival time of
\* the admitted chunk; on a 429 rejection the table is left unchanged.
C19_OverwriteOnAdmission ==
    [][ /\ \A r \in Reqs :
              (req[r].pc = "idle" /\ req'[r].pc = "body") =>
                  asr_rl' = Put(asr_rl, req'[r].x_session_id, clock)
        /\ (resp' # resp /\ resp'.status = 429) => asr_rl' = asr_rl ]_vars

\* ---- C20
\* For every session the recorded last-admitted time never decreases and
\* the entry is never removed, also when the clock is set back: a chunk that
\* arrives at a time earlier than the session's recorded time is not
\* admitted.
C20_RecordedTimeMonotonic ==
    [][ /\ \A sid \in DOMAIN asr_rl :
              sid \in DOMAIN asr_rl' /\ asr_rl'[sid] >= asr_rl[sid]
        /\ \A r \in Reqs :
              (/\ req[r].pc = "idle" /\ req'[r].pc = "body"
               /\ req'[r].x_session_id \in DOMAIN asr_rl)
              => clock >= asr_rl[req'[r].x_session_id] ]_vars

\* the clock was set back and a chunk arrived before the recorded time of
\* its session: rejected
C20_Witness ==
    /\ cfg.ASR_MIN_INTERVAL_MS > 0
    /\ resp.status = 429
    /\ resp.now_ms < resp.last
    /\ asr_rl[resp.x_session_id] = resp.last

\* ---- C21
\* Sessions are gated independently: a step for session A leaves the entry
\* of every other session as it was (a rejection, and every step that admits
\* nothing, leaves the whole table as it was), and with M > 0 a chunk of a
\* session is admitted exactly when that session has no entry or the chunk
\* arrives M or more after that session's own entry.
C21_IndependentSessions ==
    [][ /\ \A r \in Reqs :
              (req[r].pc = "idle" /\ req'[r].pc = "body") =>
                 LET A == req'[r].x_session_id IN
                 /\ \A B \in SessionIds \ {A} :
                       Get(asr_rl', B, NoTime) = Get(asr_rl, B, NoTime)
                 /\ cfg.ASR_MIN_INTERVAL_MS > 0 =>
                       \/ A \notin DOMAIN asr_rl
                       \/ clock - asr_rl[A] >= cfg.ASR_MIN_INTERVAL_MS
        /\ (resp' # resp /\ resp'.status = 429) =>
              /\ asr_rl' = asr_rl
              /\ cfg.ASR_MIN_INTERVAL_MS > 0
              /\ resp'.x_session_id \in DOMAIN asr_rl
              /\ clock - asr_rl[resp'.x_session_id] < cfg.ASR_MIN_INTERVAL_MS
        /\ (\A r \in Reqs : ~(req[r].pc = "idle" /\ req'[r].pc = "body")) =>
              asr_rl' = asr_rl ]_vars

\* a chunk of s2 is admitted at the very time a chunk of s1 was admitted
C21_Witness ==
    /\ cfg.ASR_MIN_INTERVAL_MS > 0
    /\ resp.pc = "await"
    /\ resp.x_session_id = "s2"
    /\ resp.last = NoTime
    /\ "s1" \in DOMAIN asr_rl
    /\ asr_rl["s1"] = resp.now_ms

\* ---- C22
\* While a request is inside transcription or moderation, a concurrent
\* request, for a different session key too, can still perform its admission
\* check.
C22_AdmissionNotBlocked ==
    (\E r \in Reqs : req[r].pc = "call") =>
        ENABLED (\E r2 \in Reqs : asr_stream_begin(r2))

\* the decisions of a completed model-path call are those made with mapping m
DecidedWith(m) ==
    \A i \in 1..Len(mod.inputs) :
        mod.results[i] =
            predict_item(mod.inputs[i], mod.infer.probs[i], m,
                         cfg.PHOBERT_BLOCK_THRESHOLD, cfg.PHOBERT_WARN_THRESHOLD)

\* the manifest can be read: the tokenizer names a directory, config.json
\* exists there and its id2label normalises as a whole
ManifestUsable ==
    /\ models.phobert.name_or_path
    /\ manifest.state # "absent"
    /\ SourceUsable(manifest)

\* ---- C23
\* Label resolution takes the first available source in a fixed order: the
\* non-empty id2label of the loaded classifier wins over the manifest
\* (config.json), which wins over the inverse of the configured label map.
\* In the first two sources the keys are coerced to integers, string values
\* are kept and non-string values are translated to names through the inverse
\* of the configured map.
C23_PriorityOrder ==
    LET own == models.phobert.has_model /\ SourceUsable(models.phobert.id2label) IN
    /\ own =>
          from_model(models.phobert, cfg.LABEL_MAP) =
              SomeMap(NormalisedOf(models.phobert.id2label, cfg.LABEL_MAP))
    /\ ManifestUsable =>
          from_manifest(models.phobert, manifest, cfg.LABEL_MAP) =
              SomeMap(NormalisedOf(manifest, cfg.LABEL_MAP))
    /\ (mod.status = 200 /\ ModelCompleted) =>
          /\ own => DecidedWith(NormalisedOf(models.phobert.id2label, cfg.LABEL_MAP))
          /\ (~own /\ ManifestUsable) =>
                DecidedWith(NormalisedOf(manifest, cfg.LABEL_MAP))
          /\ (~own /\ ~ManifestUsable) => DecidedWith(InverseOf(cfg.LABEL_MAP))

\* the classifier's own table names index 0 safe and the manifest names it
\* block: the row <<0.9, 0.05, 0.05>> is decided (safe, 0.9)
C23_Witness ==
    /\ mod.status = 200
    /\ ModelCompleted
    /\ models.phobert = HfPhobert(NamedTable)
    /\ manifest = SwappedTable
    /\ mod.inputs = << XinChao >>
    /\ mod.infer.probs = << <<90, 5, 5>> >>
    /\ mod.results = << [label |-> "safe", score |-> 90] >>

\* ---- C24
\* The label mapping is chosen once per loaded classifier snapshot: a request
\* repeated to the same snapshot, with the classifier giving the same
\* probabilities, gets the same decisions, even if the manifest file has
\* changed in between.
C24_MappingChosenOnce ==
    [][(/\ mod.status = 200
        /\ mod'.status = 200
        /\ mod'.inputs = mod.inputs
        /\ mod'.infer = mod.infer) => mod'.results = mod.results]_vars

\* P(l): the probability row p gives label l in mapping m, an index without
\* entry being named by its number; 0 when no index of the row is named l
ProbOfLabel(l, p, m) ==
    LET named == {j \in 1..Len(p) : Get(m, j - 1, IntStr(j - 1)) = l} IN
    IF named = {} THEN 0
    ELSE p[CHOOSE j \in named : \A h \in named : h <= j]

\* ---- C25
\* In model-assisted mode the cascade is evaluated in order, first match wins:
\* a text with a warn keyword and no block keyword is decided
\* (warn, max(P(warn), 0.6)), also when P(block) reaches the block threshold,
\* with P(warn) = 0 when the label mapping has no warn label.
C25_WarnKeywordBeforeThresholds ==
    (mod.status = 200 /\ ModelCompleted) =>
        \A i \in 1..Len(mod.inputs) :
            LET text == Lower(mod.inputs[i]) IN
            (/\ \E k \in warn_keys : Contains(k, text)
             /\ ~\E k \in hard_block : Contains(k, text)) =>
                mod.results[i] =
                    [label |-> "warn",
                     score |-> Max(ProbOfLabel("warn", mod.infer.probs[i],
                                               ExpectedLabelSpace), 60)]

\* "warning" with P(block) at or above the block threshold and P(warn) below
\* 0.6 is decided (warn, 0.6)
C25_Witness ==
    /\ mod.status = 200
    /\ ModelCompleted
    /\ mod.inputs = << <<"w", "a", "r", "n", "i", "n", "g">> >>
    /\ ProbOfLabel("block", mod.infer.probs[1], ExpectedLabelSpace)
          >= cfg.PHOBERT_BLOCK_THRESHOLD
    /\ ProbOfLabel("warn", mod.infer.probs[1], ExpectedLabelSpace) < 60
    /\ mod.results = << [label |-> "warn", score |-> 60] >>

\* ---- C26
\* transcribe_bytes always returns a transcript (a text and its segments),
\* whatever the bytes and whatever the model does.  With no model loaded,
\* when inference raises, or when the bytes are not whole 16-bit samples, the
\* result is the stub result: "xin chao" for a non-empty input, and the empty
\* text exactly when the input has zero bytes.
C26_TranscribeTotal ==
    resp.pc = "returned" =>
        /\ DOMAIN resp.result = {"text", "segments"}
        /\ (~models.whisper \/ resp.whisper.raises \/ resp.data % 2 # 0) =>
              /\ resp.result.text = (IF resp.data > 0 THEN XinChao ELSE << >>)
              /\ resp.result.segments = << resp.result.text >>
              /\ (resp.result.text = << >>) <=> (resp.data = 0)

\* a loaded model that would yield "dm x" is not asked about three bytes: the
\* result is the stub's
C26_Witness ==
    /\ resp.pc = "returned"
    /\ models.whisper
    /\ resp.data = 3
    /\ resp.whisper = [raises |-> FALSE,
                       segments |-> << <<" ", "d", "m">>, <<" ", "x", " ">> >>]
    /\ resp.result = [text |-> XinChao, segments |-> << XinChao >>]

\* the transcript a 200 response carries, in its final or its partial field
TranscriptOf(body) ==
    IF "final" \in DOMAIN body THEN body.final.text ELSE body.partial.text

\* ---- C27
\* With moderation enabled, a 200 chunk response carries at most one
\* detection, and none when the transcript is empty or only white space.  A
\* detection's snippet is the prefix of the trimmed transcript, the whole of
\* it or its first 100 characters, and its time span is startMs = endMs = 0.
C27_DetectionShape ==
    (cfg.ASR_RUN_MOD /\ resp.pc = "sent" /\ resp.status = 200) =>
        LET trimmed == Strip(TranscriptOf(resp.body))
            ds == resp.body.detections
        IN /\ Len(ds) <= 1
           /\ trimmed = << >> => ds = << >>
           /\ \A i \in 1..Len(ds) :
                 /\ ds[i].startMs = 0
                 /\ ds[i].endMs = 0
                 /\ Len(ds[i].snippet) <= 100
                 /\ Len(ds[i].snippet) <= Len(trimmed)
                 /\ ds[i].snippet = SubSeq(trimmed, 1, Len(ds[i].snippet))
                 /\ Len(ds[i].snippet) = 100 \/ Len(ds[i].snippet) = Len(trimmed)

\* a transcript of 101 characters: one detection whose snippet is its first
\* 100 characters
C27_Witness ==
    /\ cfg.ASR_RUN_MOD
    /\ resp.pc = "sent"
    /\ resp.status = 200
    /\ Len(TranscriptOf(resp.body)) = 101
    /\ Len(resp.body.detections) = 1
    /\ Len(resp.body.detections[1].snippet) = 100

\* ---- C28
\* Any text that heuristic-only mode decides as block is decided as block in
\* model-assisted mode too, whatever the probabilities: the block list of the
\* model-assisted keyword override holds every block keyword of the
\* heuristic list.
C28_HeuristicBlockKept ==
    (mod.status = 200 /\ ModelCompleted) =>
        \A i \in 1..Len(mod.inputs) :
            heuristic_item(mod.inputs[i]).label = "block" =>
                mod.results[i].label = "block"

\* ---- C29
\* A 429 is backpressure a session recovers from.  With a minimum interval
\* M > 0, a clock that keeps advancing and a session that keeps
\* resubmitting: a session rejected while its recorded admission time plus M
\* is still within the clock's range is eventually admitted again.  A
\* rejection leaves the table as it was, however many there are, and only a
\* request arriving less than M after the recorded admission is rejected, so
\* the first one arriving M or more after it is admitted.
C29_RecoverableBackpressure ==
    /\ \A s \in SessionIds :
          (/\ resp.status = 429
           /\ resp.x_session_id = s
           /\ resp.last + cfg.ASR_MIN_INTERVAL_MS <= MaxClock)
          ~> (resp.pc = "await" /\ resp.x_session_id = s)
    /\ [][(resp' # resp /\ resp'.status = 429) =>
             /\ asr_rl' = asr_rl
             /\ resp'.x_session_id \in DOMAIN asr_rl
             /\ resp'.last = asr_rl[resp'.x_session_id]
             /\ clock - resp'.last < cfg.ASR_MIN_INTERVAL_MS]_vars

\* session s1, admitted at 1, was rejected at 2 and is admitted at 3 = 1 + M
C29_Witness ==
    /\ cfg.ASR_MIN_INTERVAL_MS = MinIntervalMs
    /\ resp.pc = "await"
    /\ resp.x_session_id = "s1"
    /\ resp.last # NoTime
    /\ resp.now_ms = resp.last + cfg.ASR_MIN_INTERVAL_MS

\* ---- C30
\* The final flag does not close a session.  Answering a chunk, final or
\* not, records nothing about its session; a chunk that follows the answer
\* to a final chunk of the same session is admitted like any other chunk,
\* rejected only by the rate limit; and a 200 response is framed by its own
\* chunk's flag alone, whatever the response before it was.
C30_FinalDoesNotClose ==
    [][ /\ \A r \in Reqs :
              (req[r].pc = "call" /\ req'[r].pc = "idle") =>
                 /\ asr_rl' = asr_rl
                 /\ resp'.status = 200
                 /\ "final" \in DOMAIN resp'.body <=> req[r].x_final = "true"
                 /\ "partial" \in DOMAIN resp'.body <=> req[r].x_final # "true"
        /\ (/\ resp.pc = "sent" /\ resp.status = 200 /\ resp.x_final = "true"
            /\ resp'.pc \in {"await", "early"}
            /\ resp'.x_api_key = API_KEY
            /\ resp'.x_session_id = resp.x_session_id) =>
               \/ resp'.pc = "await"
               \/ /\ resp'.status = 429
                  /\ cfg.ASR_MIN_INTERVAL_MS > 0
                  /\ resp.x_session_id \in DOMAIN asr_rl
                  /\ clock - asr_rl[resp.x_session_id] < cfg.ASR_MIN_INTERVAL_MS ]_vars

\* a final chunk of s1 has been answered 200 and the next chunk of s1 can be
\* admitted
C30_Witness ==
    /\ resp.pc = "sent"
    /\ resp.status = 200
    /\ resp.x_final = "true"
    /\ resp.x_session_id = "s1"
    /\ "final" \in DOMAIN resp.body
    /\ ENABLED (\E r \in Reqs : /\ asr_stream_begin(r)
                               /\ resp'.pc = "await"
                               /\ resp'.x_session_id = "s1")

====
